---- MODULE Spec2Model ----
(***************************************************************************)
(* A model of sherpa/csrc/text-utils.cc:                                   *)
(*   - MergeCharactersIntoWords, the scan that merges single bytes and     *)
(*     two-byte diacritic fragments into words (specification Spec);       *)
(*   - ConvertStringToReal over NumberIstream (specification SpecReal);    *)
(*   - SplitStringToVector / SplitStringToFloats (specification            *)
(*     SpecFloats).                                                        *)
(* A std::string is a sequence of byte values 0..255.  Indices into C++    *)
(* containers are kept 0-based as in the source; the TLA+ sequence element *)
(* with C++ index k is s[k + 1].                                           *)
(***************************************************************************)
EXTENDS Integers, Sequences, FiniteSets, TLC

VARIABLES
    \* MergeCharactersIntoWords
    words,      \* the argument: a sequence of fragments
    i,          \* the scan index (int32_t i)
    prev,       \* start of the pending run, -1 when there is none
    ans,        \* the result under construction
    span,       \* history: for each word of ans, the index range <<from, to>> it was built from
    iters,      \* history: number of executions of the while body
    mpc,        \* "scan" from the entry to the loop exit, "done" after the return
    round,      \* 1 for the first call, 2 for the call on the first call's result
    first,      \* the first call's result (round 2 only)
    \* ConvertStringToReal
    text,       \* the argument str
    rpc,        \* "call" before the call, "ret" after it
    rres,       \* the call's outcome [ok, val]
    \* SplitStringToFloats
    full,       \* the argument full
    delim,      \* the delimiter characters
    omit,       \* omit_empty_strings
    split,      \* the local vector split
    out,        \* the caller's vector *out
    out0,       \* history: *out before the call
    fi,         \* the loop index (size_t i)
    ret,        \* the returned value, "none" until the return
    fpc         \* "entry", "loop" or "done"

mergeVars == <<words, i, prev, ans, span, iters, mpc, round, first>>
realVars == <<text, rpc, rres>>
floatVars == <<full, delim, omit, split, out, out0, fi, ret, fpc>>
vars == <<mergeVars, realVars, floatVars>>

(***************************************************************************)
(* Bounds of the model.                                                    *)
(***************************************************************************)
\* Largest number of fragments in an argument of MergeCharactersIntoWords.
MaxFragments == 3

(***************************************************************************)
(* Byte strings.                                                           *)
(***************************************************************************)
RECURSIVE Flatten(_)
\* The concatenation of a sequence of strings (std::string::append in order).
Flatten(ws) ==
    IF ws = <<>> THEN <<>> ELSE Head(ws) \o Flatten(Tail(ws))

\* <cctype> std::isspace in the "C" locale: ' ', \t, \n, \v, \f, \r.
\* The source passes a plain char, which is negative for a byte above 0x7F
\* where char is signed; the C libraries answer 0 for such an argument as
\* they do for the byte's unsigned value, so no byte above 0x7F is a space.
IsSpace(c) == c = 32 \/ (c >= 9 /\ c <= 13)

\* <cctype> std::ispunct in the "C" locale: the printable ASCII characters
\* that are neither alphanumeric nor the space; no byte above 0x7F.
StdIsPunct(c) ==
    \/ (c >= 33 /\ c <= 47)
    \/ (c >= 58 /\ c <= 64)
    \/ (c >= 91 /\ c <= 96)
    \/ (c >= 123 /\ c <= 126)

\* static bool IsPunct(char c): punctuation other than the apostrophe (39).
IsPunct(c) == c # 39 /\ StdIsPunct(c)

IsGermanUmlaut(w) ==
    /\ Len(w) = 2
    /\ w[1] = 195
    /\ w[2] \in {164, 182, 188, 132, 150, 156, 159}

IsSpanishDiacritic(w) ==
    /\ Len(w) = 2
    /\ w[1] = 195
    /\ w[2] \in {161, 169, 173, 179, 186, 188, 177,
                 129, 137, 141, 147, 154, 156, 145}

IsFrenchDiacritic(w) ==
    /\ Len(w) = 2
    /\ w[1] = 195
    /\ w[2] \in {169, 160, 168, 185, 167, 162, 170, 174, 180, 187,
                 171, 175, 188, 137, 128, 136, 153, 135, 130, 138,
                 142, 148, 155, 139, 143, 156}

\* static bool IsSpecial(const std::string &w): ans || ans2.
IsSpecial(w) ==
    \/ IsGermanUmlaut(w) \/ IsSpanishDiacritic(w) \/ IsFrenchDiacritic(w)
    \/ (Len(w) = 3 /\ w[1] = 226 /\ w[2] = 128 /\ w[3] = 153)

(***************************************************************************)
(* NumberIstream and ConvertStringToReal.  The std::istringstream is the   *)
(* record [pos, eof, fail] over the argument: pos is the 0-based read      *)
(* position, eof and fail the state bits; good() is neither bit set.       *)
(* A parsed value is [kind, neg, m, e]: kind "num" stands for the number   *)
(* m * 10^e with m not divisible by 10 (m = 0, e = 0 for zero), kind "inf" *)
(* and "nan" for the IEEE specials with sign bit neg.  Magnitudes are      *)
(* within the range of T, so the extraction never fails by overflow.       *)
(***************************************************************************)
IsDigit(c) == c >= 48 /\ c <= 57

IsSign(c) == c = 43 \/ c = 45

\* The substring s[from, to) by 0-based positions.
Sub(s, from, to) == [k \in 1..(to - from) |-> s[from + k]]

RECURSIVE SkipWs(_, _)
\* The sentry's whitespace skip: the first position at or after p that holds
\* no space character, Len(s) if there is none.
SkipWs(s, p) ==
    IF p < Len(s) /\ IsSpace(s[p + 1]) THEN SkipWs(s, p + 1) ELSE p

RECURSIVE TokenEnd(_, _)
\* operator>>(istream&, string&) reads up to the next space character.
TokenEnd(s, p) ==
    IF p < Len(s) /\ ~IsSpace(s[p + 1]) THEN TokenEnd(s, p + 1) ELSE p

\* in_ >> str: [st, str].  A stream that is not good, or that holds only
\* spaces, sets failbit and leaves str as it was (empty).
ReadToken(s, st) ==
    IF st.eof \/ st.fail
    THEN [st |-> [st EXCEPT !.fail = TRUE], str |-> <<>>]
    ELSE LET b == SkipWs(s, st.pos)
             e == TokenEnd(s, b)
         IN  IF b = Len(s)
             THEN [st |-> [pos |-> b, eof |-> TRUE, fail |-> TRUE], str |-> <<>>]
             ELSE [st |-> [pos |-> e, eof |-> e = Len(s), fail |-> FALSE],
                   str |-> Sub(s, b, e)]

RECURSIVE FloatScan(_, _, _, _, _)
\* The characters num_get accumulates for a floating-point value: digits,
\* one decimal point before the exponent, one e or E after a digit with an
\* optional sign behind it.  Returns the position where it stops.
FloatScan(s, p, mant, dec, sci) ==
    IF p >= Len(s) THEN p
    ELSE LET c == s[p + 1]
         IN  IF IsDigit(c) THEN FloatScan(s, p + 1, TRUE, dec, sci)
             ELSE IF c = 46 /\ ~dec /\ ~sci
                  THEN FloatScan(s, p + 1, mant, TRUE, sci)
             ELSE IF (c = 101 \/ c = 69) /\ ~sci /\ mant
                  THEN IF p + 1 < Len(s) /\ IsSign(s[p + 2])
                       THEN FloatScan(s, p + 2, mant, dec, TRUE)
                       ELSE FloatScan(s, p + 1, mant, dec, TRUE)
             ELSE p

\* One step of the automaton strtod follows over a decimal literal.
StrtodStep(q, c) ==
    CASE q = "start" /\ IsSign(c) -> "sign"
      [] q \in {"start", "sign", "int"} /\ IsDigit(c) -> "int"
      [] q \in {"start", "sign"} /\ c = 46 -> "dot"
      [] q = "int" /\ c = 46 -> "frac"
      [] q \in {"dot", "frac"} /\ IsDigit(c) -> "frac"
      [] q \in {"int", "frac"} /\ (c = 101 \/ c = 69) -> "e"
      [] q = "e" /\ IsSign(c) -> "esign"
      [] q \in {"e", "esign", "exp"} /\ IsDigit(c) -> "exp"
      [] OTHER -> "stop"

\* The digits and signs read so far, after the character c took the
\* automaton to state q.
StrtodRead(cur, q, c) ==
    CASE q = "sign" -> [cur EXCEPT !.neg = (c = 45)]
      [] q = "int" -> [cur EXCEPT !.m = 10 * cur.m + (c - 48)]
      [] q = "frac" /\ IsDigit(c) ->
             [cur EXCEPT !.m = 10 * cur.m + (c - 48), !.nfrac = cur.nfrac + 1]
      [] q = "esign" -> [cur EXCEPT !.eneg = (c = 45)]
      [] q = "exp" -> [cur EXCEPT !.ex = 10 * cur.ex + (c - 48)]
      [] OTHER -> cur

RECURSIVE StrtodRun(_, _, _, _, _)
\* strtod over x from position p in state q: the longest prefix that is a
\* decimal literal, as [stop, neg, m, e] (stop = 0: nothing converts).  An
\* exponent without a digit is not part of the literal.
StrtodRun(x, p, q, cur, best) ==
    IF p >= Len(x) THEN best
    ELSE LET nq == StrtodStep(q, x[p + 1])
             ncur == StrtodRead(cur, nq, x[p + 1])
         IN  IF nq = "stop" THEN best
             ELSE StrtodRun(x, p + 1, nq, ncur,
                      IF nq \in {"int", "frac", "exp"}
                      THEN [stop |-> p + 1, neg |-> ncur.neg, m |-> ncur.m,
                            e |-> (IF ncur.eneg THEN 0 - ncur.ex ELSE ncur.ex)
                                      - ncur.nfrac]
                      ELSE best)

Strtod(x) ==
    StrtodRun(x, 0, "start",
              [neg |-> FALSE, m |-> 0, nfrac |-> 0, eneg |-> FALSE, ex |-> 0],
              [stop |-> 0, neg |-> FALSE, m |-> 0, e |-> 0])

RECURSIVE Normalize(_, _)
\* m * 10^e with the factors of 10 moved from m into e.
Normalize(m, e) ==
    IF m = 0 THEN [m |-> 0, e |-> 0]
    ELSE IF m % 10 = 0 THEN Normalize(m \div 10, e + 1)
    ELSE [m |-> m, e |-> e]

\* The value of the literal r that strtod found.
StrtodValue(r) ==
    [kind |-> "num", neg |-> r.neg /\ r.m # 0,
     m |-> Normalize(r.m, r.e).m, e |-> Normalize(r.m, r.e).e]

Zero == [kind |-> "num", neg |-> FALSE, m |-> 0, e |-> 0]

\* The position where the extraction of a number that starts at b stops.
FloatEnd(s, b) ==
    FloatScan(s, IF IsSign(s[b + 1]) THEN b + 1 ELSE b, FALSE, FALSE, FALSE)

\* The outcome of converting the accumulated characters x = s[b, e): they
\* must convert as a whole (__convert_to_v); otherwise failbit is set and the
\* value is 0.
FloatConverted(s, e, x, r) ==
    [st |-> [pos |-> e, eof |-> e = Len(s),
             fail |-> ~(Len(x) > 0 /\ r.stop = Len(x))],
     val |-> IF Len(x) > 0 /\ r.stop = Len(x) THEN StrtodValue(r) ELSE Zero]

\* in_ >> x: [st, val].
ReadFloat(s, st) ==
    IF st.eof \/ st.fail
    THEN [st |-> [st EXCEPT !.fail = TRUE], val |-> Zero]
    ELSE IF SkipWs(s, st.pos) = Len(s)
    THEN [st |-> [pos |-> Len(s), eof |-> TRUE, fail |-> TRUE], val |-> Zero]
    ELSE LET b == SkipWs(s, st.pos)
             x == Sub(s, b, FloatEnd(s, b))
         IN  FloatConverted(s, FloatEnd(s, b), x, Strtod(x))

\* RemainderIsOnlySpaces that never looks at the remainder.
RemainderIsOnlySpacesAlways(s, st) ==
    [st |-> [st EXCEPT !.eof = FALSE, !.fail = FALSE], only |-> TRUE]

\* bool RemainderIsOnlySpaces(): [st, only].  tellg() is -1 on a stream that
\* is not good; otherwise the next token is read and must hold nothing but
\* ' '.  in_.clear() on the way to return true.
RemainderIsOnlySpaces(s, st) ==
    LET told == ~(st.eof \/ st.fail)
        r == ReadToken(s, st)
        bad == told /\ \E k \in 1..Len(r.str) : r.str[k] # 32
    IN  IF bad
        THEN [st |-> r.st, only |-> FALSE]
        ELSE [st |-> [(IF told THEN r.st ELSE st) EXCEPT !.eof = FALSE, !.fail = FALSE],
              only |-> TRUE]

PosInf == [kind |-> "inf", neg |-> FALSE, m |-> 0, e |-> 0]
NegInf == [kind |-> "inf", neg |-> TRUE, m |-> 0, e |-> 0]
PosNaN == [kind |-> "nan", neg |-> FALSE, m |-> 0, e |-> 0]
NegNaN == [kind |-> "nan", neg |-> TRUE, m |-> 0, e |-> 0]

\* inf_nan_map, keyed by the upper-case spellings.
InfNanMap ==
       (<<73, 78, 70>> :> PosInf)                              \* INF
    @@ (<<43, 73, 78, 70>> :> PosInf)                          \* +INF
    @@ (<<45, 73, 78, 70>> :> NegInf)                          \* -INF
    @@ (<<73, 78, 70, 73, 78, 73, 84, 89>> :> PosInf)          \* INFINITY
    @@ (<<43, 73, 78, 70, 73, 78, 73, 84, 89>> :> PosInf)      \* +INFINITY
    @@ (<<45, 73, 78, 70, 73, 78, 73, 84, 89>> :> NegInf)      \* -INFINITY
    @@ (<<78, 65, 78>> :> PosNaN)                              \* NAN
    @@ (<<43, 78, 65, 78>> :> PosNaN)                          \* +NAN
    @@ (<<45, 78, 65, 78>> :> NegNaN)                          \* -NAN
    @@ (<<49, 46, 35, 73, 78, 70>> :> PosInf)                  \* 1.#INF
    @@ (<<45, 49, 46, 35, 73, 78, 70>> :> NegInf)              \* -1.#INF
    @@ (<<49, 46, 35, 81, 78, 65, 78>> :> PosNaN)              \* 1.#QNAN
    @@ (<<45, 49, 46, 35, 81, 78, 65, 78>> :> NegNaN)          \* -1.#QNAN

\* std::transform(..., ::toupper) in the "C" locale.
ToUpper(x) ==
    [k \in 1..Len(x) |-> IF x[k] >= 97 /\ x[k] <= 122 THEN x[k] - 32 ELSE x[k]]

\* NumberIstream &ParseOnFail(T *x): [st, val], x being val0 on entry.
ParseOnFail(s, val0) ==
    LET r == ReadToken(s, [pos |-> 0, eof |-> FALSE, fail |-> FALSE])
        rem == RemainderIsOnlySpaces(s, r.st)
        key == ToUpper(r.str)
    IN  IF r.st.fail
        THEN [st |-> r.st, val |-> val0]
        ELSE IF ~rem.only
        THEN [st |-> [rem.st EXCEPT !.fail = TRUE], val |-> val0]
        ELSE IF key \in DOMAIN InfNanMap
        THEN [st |-> rem.st, val |-> InfNanMap[key]]
        ELSE [st |-> [rem.st EXCEPT !.fail = TRUE], val |-> val0]

\* NumberIstream &operator>>(T &x) on a fresh stream over s: [st, val].
NumberIstreamRead(s) ==
    LET r == ReadFloat(s, [pos |-> 0, eof |-> FALSE, fail |-> FALSE])
        rem == RemainderIsOnlySpaces(s, r.st)
    IN  IF ~r.st.fail /\ rem.only
        THEN [st |-> rem.st, val |-> r.val]
        ELSE ParseOnFail(s, r.val)

\* bool ConvertStringToReal(const std::string &str, T *out): [ok, val]; val
\* is *out after the call, "none" standing for a value that must not be read.
ConvertStringToReal(s) ==
    LET r == NumberIstreamRead(s)
    IN  IF r.st.fail THEN [ok |-> FALSE, val |-> "none"]
        ELSE [ok |-> TRUE, val |-> r.val]

(***************************************************************************)
(* SplitStringToVector and SplitStringToFloats.  The delimiter string is   *)
(* the set of its characters; std::string::npos is NPos.                   *)
(***************************************************************************)
NPos == -1

RECURSIVE FindFirstOf(_, _, _)
\* full.find_first_of(delim, start): the first position at or after start
\* that holds a delimiter character, NPos if there is none.
FindFirstOf(s, d, start) ==
    IF start >= Len(s) THEN NPos
    ELSE IF s[start + 1] \in d THEN start
    ELSE FindFirstOf(s, d, start + 1)

\* full.substr(start, found - start); with found = npos, up to the end.
Substr(s, start, found) ==
    Sub(s, start, IF found = NPos THEN Len(s) ELSE found)

\* The test that guards the push_back.
KeepPiece(s, om, start, found) ==
    ~om \/ (found # start /\ start # Len(s))

RECURSIVE SplitLoop(_, _, _, _, _)
\* The while loop of SplitStringToVector from position start, acc being
\* *out so far.
SplitLoop(s, d, om, start, acc) ==
    IF FindFirstOf(s, d, start) = NPos
    THEN IF KeepPiece(s, om, start, NPos)
         THEN Append(acc, Substr(s, start, NPos)) ELSE acc
    ELSE SplitLoop(s, d, om, FindFirstOf(s, d, start) + 1,
                   IF KeepPiece(s, om, start, FindFirstOf(s, d, start))
                   THEN Append(acc, Substr(s, start, FindFirstOf(s, d, start)))
                   ELSE acc)

\* void SplitStringToVector(full, delim, omit_empty_strings, out): *out.
SplitStringToVector(s, d, om) == SplitLoop(s, d, om, 0, <<>>)

\* out->resize(n): the first n elements, value-initialized ones appended.
Resize(v, n) == [k \in 1..n |-> IF k <= Len(v) THEN v[k] ELSE Zero]

\* The test *(full.c_str()) == '\0': c_str() of the empty string points at
\* its terminating NUL.
StartsWithNul(s) == IF s = <<>> THEN TRUE ELSE s[1] = 0

(***************************************************************************)
(* MergeCharactersIntoWords.  The scan state is the record                 *)
(* [i, prev, ans, span]; each branch of the while body is an operator on   *)
(* it, used both by the step-wise actions and by the function form.        *)
(***************************************************************************)
\* IsSelfTerminating with the length test off by one (size() > 3).
IsSelfTerminatingLongOnly(w) ==
    \/ Len(w) > 3
    \/ (Len(w) = 2 /\ ~IsSpecial(w))
    \/ (Len(w) = 1 /\ (IsPunct(w[1]) \/ IsSpace(w[1])))

\* The condition of the first if of the loop body.
IsSelfTerminating(w) ==
    \/ Len(w) >= 3
    \/ (Len(w) = 2 /\ ~IsSpecial(w))
    \/ (Len(w) = 1 /\ (IsPunct(w[1]) \/ IsSpace(w[1])))

\* The condition of the second if, reached when the first one is false.
IsContinuation(w) ==
    Len(w) = 1 \/ (Len(w) = 2 /\ IsSpecial(w))

\* for (; prev < i; ++prev) t.append(words[prev]);
RunText(ws, from, to) ==
    Flatten([k \in 1..(to - from) |-> ws[from + k]])

\* OnSelfTerminating without the reset prev = -1: prev is left where the
\* for loop stopped.
OnSelfTerminatingNoReset(ws, s) ==
    LET w == ws[s.i + 1]
        flushed == s.prev # -1
        a1 == IF flushed THEN Append(s.ans, RunText(ws, s.prev, s.i)) ELSE s.ans
        p1 == IF flushed THEN Append(s.span, <<s.prev, s.i>>) ELSE s.span
        keep == ~IsSpace(w[1])
    IN  [i    |-> s.i + 1,
         prev |-> IF flushed THEN s.i ELSE s.prev,
         ans  |-> IF keep THEN Append(a1, w) ELSE a1,
         span |-> IF keep THEN Append(p1, <<s.i, s.i + 1>>) ELSE p1]

\* The body of the first if: flush the pending run, emit w unless its first
\* byte is a space, ++i.
OnSelfTerminating(ws, s) ==
    LET w == ws[s.i + 1]
        flushed == s.prev # -1
        a1 == IF flushed THEN Append(s.ans, RunText(ws, s.prev, s.i)) ELSE s.ans
        p1 == IF flushed THEN Append(s.span, <<s.prev, s.i>>) ELSE s.span
        keep == ~IsSpace(w[1])
    IN  [i    |-> s.i + 1,
         prev |-> IF flushed THEN -1 ELSE s.prev,
         ans  |-> IF keep THEN Append(a1, w) ELSE a1,
         span |-> IF keep THEN Append(p1, <<s.i, s.i + 1>>) ELSE p1]

\* OnContinuation without the test prev == -1: every continuation fragment
\* restarts the run.
OnContinuationRestart(ws, s) ==
    [s EXCEPT !.i = s.i + 1, !.prev = s.i]

\* The body of the second if: start a run if none is pending, ++i.
OnContinuation(ws, s) ==
    [s EXCEPT !.i = s.i + 1,
              !.prev = IF s.prev = -1 THEN s.i ELSE s.prev]

\* OnUnrecognized that also abandons the pending run.
OnUnrecognizedDropRun(ws, s) ==
    [s EXCEPT !.i = s.i + 1, !.prev = -1]

\* OnUnrecognized without the ++i.
OnUnrecognizedStuck(ws, s) == s

\* SHERPA_LOGE("Ignore %s", ...); ++i;
OnUnrecognized(ws, s) ==
    [s EXCEPT !.i = s.i + 1]

\* One execution of the while body.
LoopBody(ws, s) ==
    LET w == ws[s.i + 1]
    IN  IF IsSelfTerminating(w) THEN OnSelfTerminating(ws, s)
        ELSE IF IsContinuation(w) THEN OnContinuation(ws, s)
        ELSE OnUnrecognized(ws, s)

\* The code after the loop: flush the pending run; prev is left at i.
EndFlush(ws, s) ==
    IF s.prev # -1
    THEN [s EXCEPT !.prev = s.i,
                   !.ans = Append(s.ans, RunText(ws, s.prev, s.i)),
                   !.span = Append(s.span, <<s.prev, s.i>>)]
    ELSE s

\* The locals after their declarations.
ScanStart == [i |-> 0, prev |-> -1, ans |-> <<>>, span |-> <<>>]

RECURSIVE Scan(_, _)
\* while (i < n) { ... }
Scan(ws, s) ==
    IF s.i < Len(ws) THEN Scan(ws, LoopBody(ws, s)) ELSE s

\* The function as a whole: its returned vector.
MergeCharactersIntoWords(ws) == EndFlush(ws, Scan(ws, ScanStart)).ans

\* The scan state held in the variables.
Cur == [i |-> i, prev |-> prev, ans |-> ans, span |-> span]

SetCur(s) ==
    /\ i' = s.i
    /\ prev' = s.prev
    /\ ans' = s.ans
    /\ span' = s.span

\* The fragments the arguments are drawn from.
FragmentPool ==
    { <<>>,                \* a zero-length fragment
      <<97>>,              \* "a"
      <<32>>,              \* " "
      <<44>>,              \* ","
      <<39>>,              \* "'"
      <<195, 164>>,        \* a-umlaut (German)
      <<195, 177>>,        \* n-tilde (Spanish only)
      <<195, 160>>,        \* a-grave (French only)
      <<195, 133>>,        \* A-ring: 0xC3 pair that is not recognized
      <<32, 32>>,          \* two spaces
      <<97, 98, 99>>,      \* "abc"
      <<32, 97, 98>>,      \* " ab"
      <<226, 128, 153>> }  \* right single quotation mark

RECURSIVE SeqsUpTo(_, _)
\* All sequences over S of length at most n.
SeqsUpTo(S, n) ==
    IF n = 0 THEN { <<>> }
    ELSE LET shorter == SeqsUpTo(S, n - 1)
         IN  shorter \cup { Append(q, x) : q \in shorter, x \in S }

MergeIdle ==
    /\ words = <<>> /\ i = 0 /\ prev = -1 /\ ans = <<>> /\ span = <<>>
    /\ iters = 0 /\ mpc = "idle" /\ round = 0 /\ first = <<>>

RealIdle == text = <<>> /\ rpc = "idle" /\ rres = [ok |-> FALSE, val |-> "none"]

FloatIdle ==
    /\ full = <<>> /\ delim = {} /\ omit = FALSE /\ split = <<>> /\ out = <<>>
    /\ out0 = <<>>
    /\ fi = 0 /\ ret = "none" /\ fpc = "idle"

MergeInit ==
    /\ words \in SeqsUpTo(FragmentPool, MaxFragments)
    /\ i = 0 /\ prev = -1 /\ ans = <<>> /\ span = <<>>
    /\ iters = 0 /\ mpc = "scan" /\ round = 1 /\ first = <<>>

SelfTerminating ==
    /\ mpc = "scan" /\ i < Len(words)
    /\ IsSelfTerminating(words[i + 1])
    /\ SetCur(OnSelfTerminating(words, Cur))
    /\ iters' = iters + 1
    /\ UNCHANGED <<words, mpc, round, first, realVars, floatVars>>

Continuation ==
    /\ mpc = "scan" /\ i < Len(words)
    /\ ~IsSelfTerminating(words[i + 1])
    /\ IsContinuation(words[i + 1])
    /\ SetCur(OnContinuation(words, Cur))
    /\ iters' = iters + 1
    /\ UNCHANGED <<words, mpc, round, first, realVars, floatVars>>

Unrecognized ==
    /\ mpc = "scan" /\ i < Len(words)
    /\ ~IsSelfTerminating(words[i + 1])
    /\ ~IsContinuation(words[i + 1])
    /\ SetCur(OnUnrecognized(words, Cur))
    /\ iters' = iters + 1
    /\ UNCHANGED <<words, mpc, round, first, realVars, floatVars>>

\* Loop exit, the flush after the loop, and the return.
Finish ==
    /\ mpc = "scan" /\ ~(i < Len(words))
    /\ SetCur(EndFlush(words, Cur))
    /\ mpc' = "done"
    /\ UNCHANGED <<words, iters, round, first, realVars, floatVars>>

\* The caller passes the result of the first call to a second call.
Remerge ==
    /\ mpc = "done" /\ round = 1
    /\ words' = ans
    /\ first' = ans
    /\ SetCur(ScanStart)
    /\ iters' = 0
    /\ mpc' = "scan"
    /\ round' = 2
    /\ UNCHANGED <<realVars, floatVars>>

Init == MergeInit /\ RealIdle /\ FloatIdle

Next == SelfTerminating \/ Continuation \/ Unrecognized \/ Finish \/ Remerge

Spec == Init /\ [][Next]_vars

(***************************************************************************)
(* Properties of MergeCharactersIntoWords (specification Spec).            *)
(***************************************************************************)
\* The fragment classes in the words of the specification.
RecognizedPair(w) ==
    IsGermanUmlaut(w) \/ IsSpanishDiacritic(w) \/ IsFrenchDiacritic(w)

PureWhitespace(w) == Len(w) >= 1 /\ \A k \in 1..Len(w) : IsSpace(w[k])

SelfTerminatingFragment(w) ==
    \/ Len(w) >= 3
    \/ (Len(w) = 2 /\ ~RecognizedPair(w))
    \/ (Len(w) = 1 /\ (IsSpace(w[1]) \/ (StdIsPunct(w[1]) /\ w[1] # 39)))

ContinuationFragment(w) ==
    \/ (Len(w) = 1 /\ ~IsSpace(w[1]) /\ ~(StdIsPunct(w[1]) /\ w[1] # 39))
    \/ (Len(w) = 2 /\ RecognizedPair(w))

NonEmpty(w) == w # <<>>

N == Len(words)

\* [s, e) is a maximal run of adjacent continuation fragments that is closed
\* by a self-terminating fragment or by the end of the input.
AdjacentRun(s, e) ==
    /\ 0 <= s /\ s < e /\ e <= N
    /\ \A k \in s..(e - 1) : ContinuationFragment(words[k + 1])
    /\ (s = 0 \/ ~ContinuationFragment(words[s]))
    /\ (e = N \/ SelfTerminatingFragment(words[e + 1]))

\* [s, e) starts and ends with a continuation fragment, holds only
\* continuation and zero-length fragments, and the nearest non-empty
\* fragment on either side, if any, is not a continuation fragment.
RunModuloEmpty(s, e) ==
    /\ 0 <= s /\ s < e /\ e <= N
    /\ ContinuationFragment(words[s + 1])
    /\ ContinuationFragment(words[e])
    /\ \A k \in s..(e - 1) :
          ContinuationFragment(words[k + 1]) \/ words[k + 1] = <<>>
    /\ \A k \in 0..(s - 1) :
          (\A m \in (k + 1)..(s - 1) : words[m + 1] = <<>>)
             => ~ContinuationFragment(words[k + 1])
    /\ \A k \in e..(N - 1) :
          (\A m \in e..(k - 1) : words[m + 1] = <<>>)
             => ~ContinuationFragment(words[k + 1])

\* C1 as stated: when the call has returned, every maximal run of adjacent
\* continuation fragments closed by a self-terminating fragment or by the
\* end of the input is one output word built from exactly that run and
\* equal to the concatenation of its fragments.
C1_AdjacentRunsEmitted ==
    mpc = "done" =>
        \A s \in 0..N : \A e \in 0..N :
            AdjacentRun(s, e) =>
                /\ Cardinality({j \in 1..Len(ans) : span[j] = <<s, e>>}) = 1
                /\ \A j \in 1..Len(ans) :
                      span[j] = <<s, e>> => ans[j] = RunText(words, s, e)

\* C1 amended: when the call has returned, every maximal run of
\* continuation fragments, where zero-length fragments are disregarded
\* (they neither end nor split a run), is emitted as exactly one output word
\* that starts at the run's first fragment and equals the concatenation of
\* the run's fragments in input order; no other word is built from any
\* fragment of the run.
C1_RunsEmitted ==
    mpc = "done" =>
        \A s \in 0..N : \A e \in 0..N :
            RunModuloEmpty(s, e) =>
                /\ Cardinality({j \in 1..Len(ans) :
                                  span[j][1] < e /\ s < span[j][2]}) = 1
                /\ \A j \in 1..Len(ans) :
                      (span[j][1] < e /\ s < span[j][2]) =>
                          /\ span[j][1] = s
                          /\ ans[j] = RunText(words, s, e)

\* A run holding a diacritic pair and a zero-length fragment has been
\* flushed at the end of the input, after a run of one fragment was flushed
\* by a self-terminating fragment.
C1_Witness ==
    /\ mpc = "done" /\ round = 1
    /\ \E s \in 0..N : \E e \in 0..N :
          /\ RunModuloEmpty(s, e)
          /\ \E k \in s..(e - 1) : Len(words[k + 1]) = 2
          /\ \E k \in s..(e - 1) : words[k + 1] = <<>>
          /\ ans # <<>> /\ span[Len(ans)] = <<s, e>>

\* C2: when the call has returned, every self-terminating fragment that is
\* not pure whitespace is an output word of its own, byte-identical, and
\* every pure-whitespace one is part of no output word.
C2_SelfTerminatingEmitted ==
    mpc = "done" =>
        \A k \in 0..(N - 1) :
            SelfTerminatingFragment(words[k + 1]) =>
                IF PureWhitespace(words[k + 1])
                THEN \A j \in 1..Len(ans) : ~(span[j][1] <= k /\ k < span[j][2])
                ELSE \E j \in 1..Len(ans) :
                        span[j] = <<k, k + 1>> /\ ans[j] = words[k + 1]

\* C3: when the call has returned, the concatenation of the output words
\* equals the concatenation of the input fragments that are not pure
\* whitespace.
C3_BytesConserved ==
    mpc = "done" =>
        Flatten(ans) = Flatten(SelectSeq(words, LAMBDA w : ~PureWhitespace(w)))

\* C4: when the second call, made on the first call's result, has returned
\* and every word of that result has at least 3 bytes, the second result is
\* the first result.
C4_Idempotent ==
    (mpc = "done" /\ round = 2 /\ \A j \in 1..Len(first) : Len(first[j]) >= 3)
        => ans = first

\* The second call has returned on a non-empty result of words of at least
\* 3 bytes, one of them merged from several fragments.
C4_Witness ==
    /\ mpc = "done" /\ round = 2
    /\ first # <<>>
    /\ \A j \in 1..Len(first) : Len(first[j]) >= 3
    /\ \E j \in 1..Len(first) : first[j] \notin FragmentPool

\* C8: when the call has returned, no output word is empty and the result is
\* the result of the function on the input with its zero-length fragments
\* deleted.
C8_EmptySkipped ==
    mpc = "done" =>
        /\ \A j \in 1..Len(ans) : ans[j] # <<>>
        /\ ans = MergeCharactersIntoWords(SelectSeq(words, NonEmpty))

\* The call has returned on an input with a zero-length fragment between two
\* continuation fragments, which came out as one word.
C8_Witness ==
    /\ mpc = "done" /\ N = 3
    /\ ContinuationFragment(words[1]) /\ words[2] = <<>>
    /\ ContinuationFragment(words[3])
    /\ Len(ans) = 1 /\ ans[1] = words[1] \o words[3]

\* C9: every execution of the loop body advances i by exactly one and stays
\* in the scan or leaves it only by the loop test, and the call returns after
\* exactly n executions of the body.
C9_Progress ==
    /\ [][(mpc = "scan" /\ i < N) =>
              (i' = i + 1 /\ iters' = iters + 1 /\ mpc' = "scan")]_vars
    /\ [](mpc = "done" => (i = N /\ iters = N))
    /\ []((mpc = "scan" /\ ~(i < N)) => ENABLED Finish)

\* The call has returned after scanning a fragment of each of the three
\* classes.
C9_Witness ==
    /\ mpc = "done" /\ iters = 3
    /\ \E k \in 1..N : SelfTerminatingFragment(words[k])
    /\ \E k \in 1..N : ContinuationFragment(words[k])
    /\ \E k \in 1..N : words[k] = <<>>

\* The pending run during the scan: inactive, or a non-empty range [prev, i)
\* that starts with a continuation fragment and holds no self-terminating
\* fragment.
PendingRunOk ==
    \/ prev = -1
    \/ /\ 0 <= prev /\ prev < i
       /\ ContinuationFragment(words[prev + 1])
       /\ \A k \in prev..(i - 1) : ~SelfTerminatingFragment(words[k + 1])

\* C10 as stated: the pending run is well formed at every point of the scan,
\* and every step that flushes it, in the loop or after it, leaves
\* prev = -1.
C10_ResetAfterEveryFlush ==
    /\ [](mpc = "scan" => PendingRunOk)
    /\ [][(prev # -1 /\ (SelfTerminating \/ Finish)) => prev' = -1]_vars

\* C10 amended: the pending run is well formed at every point of the scan;
\* a flush triggered by a self-terminating fragment leaves prev = -1; the
\* flush at the end of the input leaves prev = n, one past the last
\* fragment, and the call returns.
C10_PendingRun ==
    /\ [](mpc = "scan" => PendingRunOk)
    /\ [][(prev # -1 /\ SelfTerminating) =>
              (prev' = -1 /\ Len(ans') > Len(ans))]_vars
    /\ [][(prev # -1 /\ Finish) =>
              (prev' = N /\ mpc' = "done" /\ Len(ans') = Len(ans) + 1)]_vars

\* The call has returned after a run was flushed by a self-terminating
\* fragment and another one at the end of the input.
C10_Witness ==
    /\ mpc = "done" /\ N = 3 /\ prev = N
    /\ Len(ans) = 3
    /\ ContinuationFragment(words[1]) /\ span[1] = <<0, 1>>
    /\ SelfTerminatingFragment(words[2])
    /\ ContinuationFragment(words[3]) /\ span[3] = <<2, 3>>

(***************************************************************************)
(* Specification SpecReal: one call of ConvertStringToReal.                *)
(***************************************************************************)
\* Largest number of space characters put before, between and after the
\* tokens of an argument.
MaxPad == 1

\* The tokens the arguments of ConvertStringToReal are built from.
TokenPool ==
    { <<49>>,                                         \* 1
      <<45, 50>>,                                     \* -2
      <<49, 46, 53>>,                                 \* 1.5
      <<46, 53>>,                                     \* .5
      <<53, 46>>,                                     \* 5.
      <<43, 51>>,                                     \* +3
      <<50, 101, 49>>,                                \* 2e1
      <<49, 69, 45, 49>>,                             \* 1E-1
      <<49, 48>>,                                     \* 10
      <<49, 46, 53, 48>>,                             \* 1.50
      <<120>>,                                        \* x
      <<49, 120>>,                                    \* 1x
      <<49, 101>>,                                    \* 1e
      <<49, 101, 43>>,                                \* 1e+
      <<45>>,                                         \* -
      <<46>>,                                         \* .
      <<49, 46, 53, 46, 50>>,                         \* 1.5.2
      <<0>>,                                          \* \0
      <<49, 0>>,                                      \* 1\0
      <<105, 110, 102>>,                              \* inf
      <<43, 73, 78, 70>>,                             \* +INF
      <<45, 73, 110, 102>>,                           \* -Inf
      <<105, 110, 102, 105, 110, 105, 116, 121>>,     \* infinity
      <<43, 73, 110, 102, 105, 110, 105, 116, 121>>,  \* +Infinity
      <<45, 73, 78, 70, 73, 78, 73, 84, 89>>,         \* -INFINITY
      <<110, 97, 110>>,                               \* nan
      <<43, 78, 97, 78>>,                             \* +NaN
      <<45, 110, 97, 110>>,                           \* -nan
      <<49, 46, 35, 73, 78, 70>>,                     \* 1.#INF
      <<45, 49, 46, 35, 105, 110, 102>>,              \* -1.#inf
      <<49, 46, 35, 81, 78, 65, 78>>,                 \* 1.#QNAN
      <<45, 49, 46, 35, 113, 110, 97, 110>>,          \* -1.#qnan
      <<105, 110, 102, 120>>,                         \* infx
      <<105, 110>>,                                   \* in
      <<49, 46, 35, 73, 78>>,                         \* 1.#IN
      <<45, 45, 105, 110, 102>> }                     \* --inf

\* The tokens that may follow the first one.
SecondTokenPool ==
    { <<49>>,             \* 1
      <<120>>,            \* x
      <<105, 110, 102>> } \* inf

\* Runs of ' ' and \t of length at most MaxPad.
Pads == SeqsUpTo({32, 9}, MaxPad)

\* Arguments: an optional token between runs of spaces, optionally followed
\* by spaces and a second token.
RealInputs ==
    { lead \o t1 \o rest \o trail :
        lead \in Pads, t1 \in TokenPool \cup { <<>> },
        rest \in { <<>> } \cup { mid \o t2 : mid \in Pads \ { <<>> }, t2 \in SecondTokenPool },
        trail \in Pads }

RealInit ==
    /\ text \in RealInputs
    /\ rpc = "call"
    /\ rres = [ok |-> FALSE, val |-> "none"]

\* The call returns through the first return of operator>>: the number was
\* read and nothing but spaces follows it.
ConvertNumber ==
    /\ rpc = "call"
    /\ LET r == ReadFloat(text, [pos |-> 0, eof |-> FALSE, fail |-> FALSE])
       IN  ~r.st.fail /\ RemainderIsOnlySpaces(text, r.st).only
    /\ rres' = ConvertStringToReal(text)
    /\ rpc' = "ret"
    /\ UNCHANGED <<text, mergeVars, floatVars>>

\* The call goes through ParseOnFail.
ConvertOnFail ==
    /\ rpc = "call"
    /\ LET r == ReadFloat(text, [pos |-> 0, eof |-> FALSE, fail |-> FALSE])
       IN  r.st.fail \/ ~RemainderIsOnlySpaces(text, r.st).only
    /\ rres' = ConvertStringToReal(text)
    /\ rpc' = "ret"
    /\ UNCHANGED <<text, mergeVars, floatVars>>

RealNext == ConvertNumber \/ ConvertOnFail

InitReal == MergeIdle /\ RealInit /\ FloatIdle

SpecReal == InitReal /\ [][RealNext]_vars

(***************************************************************************)
(* Properties of ConvertStringToReal (specification SpecReal).             *)
(***************************************************************************)
RECURSIVE WsTokens(_)
\* The maximal runs of non-space characters of x, in order.
WsTokens(x) ==
    IF x = <<>> THEN <<>>
    ELSE IF IsSpace(x[1]) THEN WsTokens(Tail(x))
    ELSE LET e == TokenEnd(x, 0)
         IN  <<Sub(x, 0, e)>> \o WsTokens(Sub(x, e, Len(x)))

RECURSIVE DecimalDfa(_, _, _)
\* Whether x[p..] takes the automaton of decimal floating literals from
\* state q to an accepting state: [sign] digits [. digits] | [sign] . digits,
\* then optionally e or E, an optional sign and digits.
DecimalDfa(x, p, q) ==
    IF p > Len(x) THEN q \in {"int", "frac", "exp"}
    ELSE LET c == x[p]
             nxt ==
                 CASE q = "start" /\ IsSign(c) -> "sign"
                   [] q \in {"start", "sign", "int"} /\ IsDigit(c) -> "int"
                   [] q \in {"start", "sign"} /\ c = 46 -> "dot"
                   [] q = "int" /\ c = 46 -> "frac"
                   [] q \in {"dot", "frac"} /\ IsDigit(c) -> "frac"
                   [] q \in {"int", "frac"} /\ (c = 101 \/ c = 69) -> "e"
                   [] q = "e" /\ IsSign(c) -> "esign"
                   [] q \in {"e", "esign", "exp"} /\ IsDigit(c) -> "exp"
                   [] OTHER -> "reject"
         IN  nxt # "reject" /\ DecimalDfa(x, p + 1, nxt)

ValidNumber(x) == DecimalDfa(x, 1, "start")

AsciiUpper(x) ==
    [k \in 1..Len(x) |-> IF x[k] \in 97..122 THEN x[k] - 32 ELSE x[k]]

\* The 13 spellings of the table.
TableSpellings ==
    LET inf == <<73, 78, 70>>
        infinity == <<73, 78, 70, 73, 78, 73, 84, 89>>
        nan == <<78, 65, 78>>
        msInf == <<49, 46, 35, 73, 78, 70>>
        msNan == <<49, 46, 35, 81, 78, 65, 78>>
    IN  { inf, <<43>> \o inf, <<45>> \o inf,
          infinity, <<43>> \o infinity, <<45>> \o infinity,
          nan, <<43>> \o nan, <<45>> \o nan,
          msInf, <<45>> \o msInf, msNan, <<45>> \o msNan }

\* The value a spelling stands for: NaN if it holds an A, infinity otherwise,
\* negative if it starts with a minus sign.
SpellingValue(x) ==
    [kind |-> IF \E k \in 1..Len(x) : x[k] = 65 THEN "nan" ELSE "inf",
     neg |-> x[1] = 45, m |-> 0, e |-> 0]

RECURSIVE TrimLeft(_)
TrimLeft(x) == IF x # <<>> /\ IsSpace(x[1]) THEN TrimLeft(Tail(x)) ELSE x

RECURSIVE TrimRight(_)
TrimRight(x) ==
    IF x # <<>> /\ IsSpace(x[Len(x)]) THEN TrimRight(SubSeq(x, 1, Len(x) - 1)) ELSE x

\* C6: the call returns true exactly when the argument holds one token and
\* the token is a decimal number or, in upper case, a spelling of the table;
\* for a spelling the value is the infinity or NaN it stands for, for a
\* number it is a number; and the outcome is that of the call on the
\* argument without its leading and trailing spaces.
C6_ConvertStringToReal ==
    rpc = "ret" =>
        LET toks == WsTokens(text)
            one == Len(toks) = 1
        IN  /\ rres.ok <=> (one /\ (\/ ValidNumber(toks[1])
                                    \/ AsciiUpper(toks[1]) \in TableSpellings))
            /\ (rres.ok /\ ValidNumber(toks[1])) => rres.val.kind = "num"
            /\ (rres.ok /\ ~ValidNumber(toks[1])) =>
                   rres.val = SpellingValue(AsciiUpper(toks[1]))
            /\ (text = <<>> \/ toks = <<>> \/ Len(toks) >= 2) => ~rres.ok
            /\ rres = ConvertStringToReal(TrimRight(TrimLeft(text)))

\* The call has returned true for a lower-case spelling between spaces.
C6_Witness ==
    /\ rpc = "ret" /\ rres.ok
    /\ rres.val = NegNaN
    /\ text # <<>> /\ IsSpace(text[1]) /\ IsSpace(text[Len(text)])
    /\ \E k \in 1..Len(text) : text[k] \in 97..122

(***************************************************************************)
(* Specification SpecFloats: one call of SplitStringToFloats.              *)
(***************************************************************************)
\* Largest number of items (tokens and single characters) in an argument.
MaxItems == 3

\* The items the arguments of SplitStringToFloats are built from: the
\* tokens 1, 2.5, inf and x, the characters ',' and ';', a space and NUL.
ItemPool ==
    { <<49>>,
      <<50, 46, 53>>,
      <<105, 110, 102>>,
      <<120>>,
      <<44>>,
      <<59>>,
      <<32>>,
      <<0>> }

FloatInputs == { Flatten(q) : q \in SeqsUpTo(ItemPool, MaxItems) }

\* A value left in the caller's vector by an earlier use.
Stale == [kind |-> "num", neg |-> FALSE, m |-> 7, e |-> 0]

FloatInit ==
    /\ full \in FloatInputs
    /\ delim \in { {44}, {44, 59} }
    /\ omit \in BOOLEAN
    /\ out0 \in { <<>>, <<Stale>> }
    /\ out = out0
    /\ split = <<>> /\ fi = 0 /\ ret = "none" /\ fpc = "entry"

\* if (*(full.c_str()) == '\0') { out->clear(); return true; }
ReturnEmpty ==
    /\ fpc = "entry" /\ StartsWithNul(full)
    /\ out' = <<>>
    /\ ret' = TRUE
    /\ fpc' = "done"
    /\ UNCHANGED <<full, delim, omit, split, out0, fi, mergeVars, realVars>>

\* SplitStringToVector(...); out->resize(split.size());
SplitAndResize ==
    /\ fpc = "entry" /\ ~StartsWithNul(full)
    /\ split' = SplitStringToVector(full, delim, omit)
    /\ out' = Resize(out, Len(split'))
    /\ fi' = 0
    /\ fpc' = "loop"
    /\ UNCHANGED <<full, delim, omit, out0, ret, mergeVars, realVars>>

\* A loop iteration whose piece converts: (*out)[i] = f; ++i.
StorePiece ==
    /\ fpc = "loop" /\ fi < Len(split)
    /\ ConvertStringToReal(split[fi + 1]).ok
    /\ out' = [out EXCEPT ![fi + 1] = ConvertStringToReal(split[fi + 1]).val]
    /\ fi' = fi + 1
    /\ UNCHANGED <<full, delim, omit, split, out0, ret, fpc, mergeVars, realVars>>

\* A loop iteration whose piece does not convert: return false.
RejectPiece ==
    /\ fpc = "loop" /\ fi < Len(split)
    /\ ~ConvertStringToReal(split[fi + 1]).ok
    /\ ret' = FALSE
    /\ fpc' = "done"
    /\ UNCHANGED <<full, delim, omit, split, out, out0, fi, mergeVars, realVars>>

\* The loop ends: return true.
ReturnTrue ==
    /\ fpc = "loop" /\ ~(fi < Len(split))
    /\ ret' = TRUE
    /\ fpc' = "done"
    /\ UNCHANGED <<full, delim, omit, split, out, out0, fi, mergeVars, realVars>>

InitFloats == MergeIdle /\ RealIdle /\ FloatInit

FloatsNext ==
    ReturnEmpty \/ SplitAndResize \/ StorePiece \/ RejectPiece \/ ReturnTrue

SpecFloats == InitFloats /\ [][FloatsNext]_vars

(***************************************************************************)
(* Properties of SplitStringToFloats (specification SpecFloats).           *)
(***************************************************************************)
RECURSIVE Pieces(_, _)
\* The substrings of x between its delimiter characters, in order.
Pieces(x, d) ==
    IF \A k \in 1..Len(x) : x[k] \notin d THEN <<x>>
    ELSE LET k == CHOOSE k \in 1..Len(x) :
                      x[k] \in d /\ \A m \in 1..(k - 1) : x[m] \notin d
         IN  <<SubSeq(x, 1, k - 1)>> \o Pieces(SubSeq(x, k + 1, Len(x)), d)

\* The pieces the call is to convert.
WantedPieces ==
    IF omit THEN SelectSeq(Pieces(full, delim), NonEmpty) ELSE Pieces(full, delim)

\* C5: when the call has returned false, the caller's list is as it was
\* before the call.
C5_FailsAtomically ==
    (fpc = "done" /\ ret = FALSE) => out = out0

\* C7: when the call has returned: on an empty argument it returned true
\* with an empty list; on a non-empty one it returned true exactly when
\* every piece converts, and then the list holds the pieces' values in
\* order; without omit_empty_strings there is one piece more than there are
\* delimiter characters, and an empty piece makes the call return false.
C7_SplitStringToFloats ==
    fpc = "done" =>
        /\ full = <<>> => (ret = TRUE /\ out = <<>>)
        /\ full # <<>> =>
              /\ ret = (\A k \in 1..Len(WantedPieces) :
                            ConvertStringToReal(WantedPieces[k]).ok)
              /\ ret = TRUE =>
                    out = [k \in 1..Len(WantedPieces) |->
                              ConvertStringToReal(WantedPieces[k]).val]
              /\ ~omit =>
                    /\ Len(WantedPieces) =
                          Cardinality({k \in 1..Len(full) : full[k] \in delim}) + 1
                    /\ (\E k \in 1..Len(WantedPieces) : WantedPieces[k] = <<>>)
                          => ret = FALSE

====
